---- MODULE Spec2Model ----
(***************************************************************************)
(* Model of github.com/w84thesun/logger: the field context (fields.go),    *)
(* the flatten-buffer pool (fields.go), and the logger facade and factory  *)
(* built on go.uber.org/zap (client.go).                                   *)
(***************************************************************************)
EXTENDS Integers, Sequences, FiniteSets, Bags, TLC

(* ------------------------------ bounds -------------------------------- *)

\* Loggers held at once in the derivation scenario (the root and those derived).
MaxLoggers == 4
\* sync.Pool may hand out a new buffer although it holds some; it does so here
\* only while it holds at most MaxPool.
MaxPool == 0

(* ------------------------------ state --------------------------------- *)

VARIABLES
  config,    \* the LoggingConfig handed to New
  ret,       \* what New returned: [called, logger, err]
  heap,      \* Go map objects: map id -> [live, m]; a Fields value is a map id
  lgs,       \* the loggerImpl values the callers hold, lgs[1] is the one New made
  hist,      \* per derived logger, how it was made (read by the isolation claims)
  pool,      \* flattenPool: a bag of slice headers [arr, len]
  arrays,    \* backing arrays of the []interface{} slices: array id -> [live, data]
  call,      \* the facade call that ran last and what it did
  gor        \* concurrent scenario: each goroutine's place in its call and its locals

vars == <<config, ret, heap, lgs, hist, pool, arrays, call, gor>>

(* --------------------------- fields.go: Fields ------------------------ *)

EmptyFields == [k \in {} |-> ""]

MaxMaps == MaxLoggers + 1
MapIds == 1..MaxMaps

DeadMap == [live |-> FALSE, m |-> EmptyFields]
EmptyHeap == [i \in MapIds |-> DeadMap]

\* make(Fields, n): the address of a fresh map object.
MakeFields(h) == CHOOSE i \in MapIds : ~h[i].live /\ \A j \in MapIds : j < i => h[j].live

\* A bug for Copy: returns the receiver's own map instead of a new one.
CopyAliased(h, f) == [heap |-> h, ref |-> f]

\* func (f Fields) Copy() Fields
Copy(h, f) ==
  LET newF == MakeFields(h)
  IN  [heap |-> [h EXCEPT ![newF] = [live |-> TRUE, m |-> h[f].m]], ref |-> newF]

\* func (f Fields) Merge(newValues Fields) Fields; newValues is the caller's map,
\* only read here.
Merge(h, f, newValues) ==
  LET c == Copy(h, f)
      old == c.heap[c.ref].m
      merged == [k \in DOMAIN old \cup DOMAIN newValues |->
                   IF k \in DOMAIN newValues THEN newValues[k] ELSE old[k]]
  IN  [heap |-> [c.heap EXCEPT ![c.ref].m = merged], ref |-> c.ref]

\* The garbage collector: map objects no held logger refers to are gone.
Collect(h, refs) == [i \in MapIds |-> IF i \in refs THEN h[i] ELSE DeadMap]

(* ------------------------ client.go: loggerImpl ----------------------- *)

\* func (l loggerImpl) With(fields Fields) Logger: l is the callee's copy of the
\* struct, so the assignment to l.fields changes the returned value only.
With(h, l, fields) ==
  LET r == Merge(h, l.fields, fields)
  IN  [heap |-> r.heap, logger |-> [l EXCEPT !.fields = r.ref]]

\* func (l loggerImpl) Namespace(namespace string) Logger
Namespace(h, l, namespace) ==
  LET r == Merge(h, l.fields, [k \in {"namespace"} |-> namespace])
  IN  [heap |-> r.heap, logger |-> [l EXCEPT !.fields = r.ref]]

\* func (l loggerImpl) GetField(fieldName string) (value interface{}, ok bool)
GetField(h, l, fieldName) ==
  IF fieldName \in DOMAIN h[l.fields].m
    THEN [value |-> h[l.fields].m[fieldName], ok |-> TRUE]
    ELSE [value |-> "nil", ok |-> FALSE]

(* ---------------------- fields.go: Flatten and the pool --------------- *)

\* var ignore
ignore == {"@timestamp", "message", "level", "service"}

MaxArrs == MaxPool + 8
ArrIds == 0..MaxArrs

\* Array 0 is the zero-capacity array every empty slice literal points to.
ZeroArr == [live |-> TRUE, data |-> <<>>]
DeadArr == [live |-> FALSE, data |-> <<>>]
EmptyArrays == [i \in ArrIds |-> IF i = 0 THEN ZeroArr ELSE DeadArr]

Cap(as, s) == Len(as[s.arr].data)

\* flattenPool.New
PoolNew == [arr |-> 0, len |-> 0]

\* flattenPool.Get(): some item of the pool, taken out of it, or New()'s when the
\* pool is empty or misses. The set of possible (pool, item) results.
PoolGet(p) ==
  {[pool |-> p (-) SetToBag({s}), item |-> s] : s \in BagToSet(p)}
    \cup (IF BagCardinality(p) <= MaxPool THEN {[pool |-> p, item |-> PoolNew]} ELSE {})

\* runtime growslice, for 16-byte elements and capacities below 256.
NewCap(oldCap, needed) == IF needed > 2 * oldCap THEN needed ELSE 2 * oldCap

NewArr(as) == CHOOSE i \in ArrIds : ~as[i].live /\ \A j \in ArrIds : j < i => as[j].live

\* list = append(list, k, v)
AppendKV(as, list, k, v) ==
  IF list.len + 2 <= Cap(as, list)
    THEN [arrays |-> [as EXCEPT ![list.arr].data =
                        [i \in 1..Len(@) |-> IF i = list.len + 1 THEN k
                                             ELSE IF i = list.len + 2 THEN v ELSE @[i]]],
          list |-> [list EXCEPT !.len = @ + 2]]
    ELSE LET n == NewArr(as)
             c == NewCap(Cap(as, list), list.len + 2)
             d == [i \in 1..c |-> IF i <= list.len THEN as[list.arr].data[i]
                                  ELSE IF i = list.len + 1 THEN k
                                  ELSE IF i = list.len + 2 THEN v ELSE "nil"]
         IN  [arrays |-> [as EXCEPT ![n] = [live |-> TRUE, data |-> d]],
              list |-> [arr |-> n, len |-> list.len + 2]]

\* The orders in which `for k, v := range f` may visit the keys of a map.
RECURSIVE RangeOrders(_)
RangeOrders(S) ==
  IF S = {} THEN {<<>>}
  ELSE UNION {{<<x>> \o o : o \in RangeOrders(S \ {x})} : x \in S}

\* A bug for FlattenLoop: the reserved keys are not skipped.
RECURSIVE FlattenLoopKeepsAll(_, _, _, _)
FlattenLoopKeepsAll(as, list, m, order) ==
  IF order = <<>> THEN [arrays |-> as, list |-> list]
  ELSE LET k == Head(order)
           a == AppendKV(as, list, k, m[k])
       IN  FlattenLoopKeepsAll(a.arrays, a.list, m, Tail(order))

\* The loop of Flatten over the map m, visiting its keys in `order`.
RECURSIVE FlattenLoop(_, _, _, _)
FlattenLoop(as, list, m, order) ==
  IF order = <<>> THEN [arrays |-> as, list |-> list]
  ELSE LET k == Head(order)
       IN  IF k \in ignore
             THEN FlattenLoop(as, list, m, Tail(order))
             ELSE LET a == AppendKV(as, list, k, m[k])
                  IN  FlattenLoop(a.arrays, a.list, m, Tail(order))

\* The elements of a slice: data[0:len].
Elems(as, s) == SubSeq(as[s.arr].data, 1, s.len)

\* A bug for PutFlatten: the slice is put back twice.
PutFlattenTwice(p, flatten) ==
  p (+) SetToBag({[arr |-> flatten.arr, len |-> 0]}) (+) SetToBag({[arr |-> flatten.arr, len |-> 0]})

\* A bug for PutFlatten: the slice goes back with its length.
PutFlattenKeepsLen(p, flatten) == p (+) SetToBag({flatten})

\* func putFlatten(flatten []interface{}): flattenPool.Put(flatten[:0])
PutFlatten(p, flatten) == p (+) SetToBag({[arr |-> flatten.arr, len |-> 0]})

\* The garbage collector: arrays no pooled or held slice points to are gone.
CollectArrs(as, refs) ==
  [i \in ArrIds |-> IF i = 0 \/ i \in refs THEN as[i] ELSE DeadArr]

PoolArrs(p) == {s.arr : s \in BagToSet(p)}

(* ------------------------- go.uber.org/zap ---------------------------- *)

\* The zapcore.Level constants getLevel returns, with the values zapcore gives
\* them (Debug = -1, Info, Warn, Error, DPanic, Panic, Fatal = 5, in that order):
\* zapcore puts Panic below Fatal.
DebugLevel == -1
InfoLevel == 0
WarnLevel == 1
ErrorLevel == 2
PanicLevel == 4
FatalLevel == 5

FormatJSON == "json"
FormatPretty == "pretty"

\* Addresses net.Dial reaches; any other address, or an unknown network, fails.
Listening == {"logstash:5000"}
Networks == {"tcp", "udp"}

\* getFormat
getFormat(format) ==
  IF format = "" THEN [format |-> FormatJSON, err |-> ""]
  ELSE IF format # FormatJSON /\ format # FormatPretty
    THEN [format |-> "", err |-> "invalid FormatStdout"]
    ELSE [format |-> format, err |-> ""]

\* A bug for getLevel: an unknown name falls back to info.
getLevelLenient(level) ==
  CASE level = "debug" -> [level |-> DebugLevel, err |-> ""]
    [] level = "warn"  -> [level |-> WarnLevel, err |-> ""]
    [] level = "error" -> [level |-> ErrorLevel, err |-> ""]
    [] level = "fatal" -> [level |-> FatalLevel, err |-> ""]
    [] level = "panic" -> [level |-> PanicLevel, err |-> ""]
    [] OTHER           -> [level |-> InfoLevel, err |-> ""]

\* getLevel
getLevel(level) ==
  CASE level = "debug" -> [level |-> DebugLevel, err |-> ""]
    [] level = "info"  -> [level |-> InfoLevel, err |-> ""]
    [] level = "warn"  -> [level |-> WarnLevel, err |-> ""]
    [] level = "error" -> [level |-> ErrorLevel, err |-> ""]
    [] level = "fatal" -> [level |-> FatalLevel, err |-> ""]
    [] level = "panic" -> [level |-> PanicLevel, err |-> ""]
    [] OTHER           -> [level |-> 0, err |-> "bad logging level"]

\* A bug for Enabled: the threshold itself is not admitted.
EnabledStrict(core, level) == level > core.zapLevel

\* levelEnabler of newStdoutCore and newLogstashCore
Enabled(core, level) == level >= core.zapLevel

\* newStdoutCore
newStdoutCore(zapLevel, format) ==
  [name |-> "stdout", zapLevel |-> zapLevel,
   encoder |-> IF format = FormatJSON THEN "json" ELSE "console",
   fields |-> <<>>]

\* newLogstashCore: the core in a sequence (none on error) and the error.
newLogstashCore(zapLevel, protocol, addr) ==
  IF ~(protocol \in Networks /\ addr \in Listening)
    THEN [core |-> <<>>, err |-> "dial"]
    ELSE [core |-> <<[name |-> "logstash", zapLevel |-> zapLevel, encoder |-> "json",
                      fields |-> <<<<"@version", "1">>, <<"type", "log">>>>]>>,
          err |-> ""]

\* core.With(fields) on every core of the tee
CoreWith(cores, fields) == [i \in 1..Len(cores) |-> [cores[i] EXCEPT !.fields = @ \o fields]]

\* A bug for newZapLogger: the second core replaces the list instead of joining it.
newZapLoggerOneCore(zapLevel, service, logstashProtocol, logstashURI, disableStdout, formatStdout) ==
  LET c1 == IF ~disableStdout THEN <<newStdoutCore(zapLevel, formatStdout)>> ELSE <<>>
      ls == IF logstashURI # "" THEN newLogstashCore(zapLevel, logstashProtocol, logstashURI)
            ELSE [core |-> <<>>, err |-> ""]
  IN  IF ls.err # "" THEN [logger |-> <<>>, err |-> ls.err]
      ELSE [logger |-> <<[cores |-> CoreWith(IF ls.core # <<>> THEN ls.core ELSE c1,
                                             <<<<"service", service>>>>),
                          ctx |-> <<>>]>>,
            err |-> ""]

\* A bug for newZapLogger: disableStdout is not looked at.
newZapLoggerAlwaysStdout(zapLevel, service, logstashProtocol, logstashURI, disableStdout, formatStdout) ==
  LET c1 == <<newStdoutCore(zapLevel, formatStdout)>>
      ls == IF logstashURI # "" THEN newLogstashCore(zapLevel, logstashProtocol, logstashURI)
            ELSE [core |-> <<>>, err |-> ""]
  IN  IF ls.err # "" THEN [logger |-> <<>>, err |-> ls.err]
      ELSE [logger |-> <<[cores |-> CoreWith(c1 \o ls.core, <<<<"service", service>>>>),
                          ctx |-> <<>>]>>,
            err |-> ""]

\* newZapLogger: the *zap.Logger in a sequence (none on error) and the error.
newZapLogger(zapLevel, service, logstashProtocol, logstashURI, disableStdout, formatStdout) ==
  LET c1 == IF ~disableStdout THEN <<newStdoutCore(zapLevel, formatStdout)>> ELSE <<>>
      ls == IF logstashURI # "" THEN newLogstashCore(zapLevel, logstashProtocol, logstashURI)
            ELSE [core |-> <<>>, err |-> ""]
  IN  IF ls.err # "" THEN [logger |-> <<>>, err |-> ls.err]
      ELSE [logger |-> <<[cores |-> CoreWith(c1 \o ls.core, <<<<"service", service>>>>),
                          ctx |-> <<>>]>>,
            err |-> ""]

\* func New(config LoggingConfig) (logger Logger, err error): the logger in a
\* sequence (empty for nil), the error ("" for nil), and the heap with the
\* logger's Fields map.
New(h, cfg) ==
  LET level == IF cfg.Level = "" THEN "info" ELSE cfg.Level
      f == getFormat(cfg.FormatStdout)
      l == getLevel(level)
      z == newZapLogger(l.level, cfg.Service, cfg.LogstashProtocol, cfg.LogstashURI,
                        cfg.DisableStdout, f.format)
      m == MakeFields(h)
  IN  IF f.err # "" THEN [heap |-> h, logger |-> <<>>, err |-> f.err]
      ELSE IF l.err # "" THEN [heap |-> h, logger |-> <<>>, err |-> l.err]
      ELSE IF z.err # "" THEN [heap |-> h, logger |-> <<>>, err |-> z.err]
      ELSE [heap |-> [h EXCEPT ![m] = [live |-> TRUE,
                                       m |-> [k \in {"namespace"} |-> cfg.Namespace]]],
            logger |-> <<[base |-> z.logger[1], fields |-> m]>>,
            err |-> ""]

\* fmt.Sprintf over tokens: each verb of the format takes the next argument's text.
Verbs == {"%s", "%v", "%+v"}

RECURSIVE Sprintf(_, _)
Sprintf(format, args) ==
  IF format = <<>> THEN <<>>
  ELSE IF Head(format) \in Verbs
    THEN IF args = <<>> THEN <<"%!(MISSING)">> \o Sprintf(Tail(format), args)
         ELSE Head(args) \o Sprintf(Tail(format), Tail(args))
    ELSE <<Head(format)>> \o Sprintf(Tail(format), args)

\* fmt.Sprint
RECURSIVE Sprint(_)
Sprint(args) == IF args = <<>> THEN <<>> ELSE Head(args) \o Sprint(Tail(args))

\* SugaredLogger.With(args...): the key/value arguments are read pairwise into
\* fields of the returned logger.
SugarWith(base, args) ==
  [base EXCEPT !.ctx = @ \o [i \in 1..(Len(args) \div 2) |-> <<args[2 * i - 1], args[2 * i]>>]]

\* What zap does after writing an entry of this level.
After(level) ==
  IF level = PanicLevel THEN "panic" ELSE IF level = FatalLevel THEN "exit" ELSE "return"

\* SugaredLogger.Debug ... Fatalf: the cores whose enabler admits the level each
\* encode and write the entry, in order, whether or not an earlier write failed;
\* the failures are reported on zap's error output (stderr), not to the caller;
\* then Panic panics and Fatal exits.
ZapLog(sugared, level, msg, failing) ==
  LET cs == SelectSeq(sugared.cores, LAMBDA c : Enabled(c, level))
      ok == SelectSeq(cs, LAMBDA c : c.name \notin failing)
  IN  [events |-> [i \in 1..Len(ok) |->
                     [sink |-> ok[i].name, level |-> level, msg |-> msg,
                      fields |-> ok[i].fields \o sugared.ctx]]
                  \o (IF Len(ok) < Len(cs)
                        THEN <<[sink |-> "stderr", level |-> level,
                                msg |-> <<"write error">>, fields |-> <<>>]>>
                        ELSE <<>>),
       outcome |-> After(level)]

(* ---------------------- client.go: the leveled calls ------------------ *)

\* func (f Fields) Flatten() []interface{}: the possible results, one per item
\* the pool may hand out and per order of the range loop.
Flatten(p, as, m) ==
  { LET f == FlattenLoop(as, g.item, m, o)
    IN  [pool |-> g.pool, arrays |-> f.arrays, list |-> f.list]
    : g \in PoolGet(p), o \in RangeOrders(DOMAIN m) }

\* func (l loggerImpl) prepare() *zap.SugaredLogger: Flatten, base.With, putFlatten.
prepare(h, p, as, l) ==
  { [pool |-> PutFlatten(f.pool, f.list), arrays |-> f.arrays,
     prepared |-> SugarWith(l.base, Elems(f.arrays, f.list))]
    : f \in Flatten(p, as, h[l.fields].m) }

Plain == {"Debug", "Info", "Warn", "Error", "Panic", "Fatal"}
Formatting == {"Debugf", "Infof", "Warnf", "Errorf", "Panicf", "Fatalf"}
Methods == Plain \cup Formatting

\* The zap level each method of loggerImpl logs at.
MethodLevel(method) ==
  CASE method \in {"Debug", "Debugf"} -> DebugLevel
    [] method \in {"Info", "Infof"}   -> InfoLevel
    [] method \in {"Warn", "Warnf"}   -> WarnLevel
    [] method \in {"Error", "Errorf"} -> ErrorLevel
    [] method \in {"Panic", "Panicf"} -> PanicLevel
    [] method \in {"Fatal", "Fatalf"} -> FatalLevel

\* func (l loggerImpl) Debug(message ...interface{}) ... Fatalf(format, args...):
\* l.prepare().X(...). The possible results: the pool and arrays after it, what
\* was written, and how the call ended.
Leveled(h, p, as, l, method, format, args, failing) ==
  { LET z == ZapLog(r.prepared, MethodLevel(method),
                    IF method \in Formatting THEN Sprintf(format, args) ELSE Sprint(args),
                    failing)
    IN  [pool |-> r.pool, arrays |-> r.arrays, events |-> z.events, outcome |-> z.outcome]
    : r \in prepare(h, p, as, l) }

Returned(p, as) == [pool |-> p, arrays |-> as, events |-> <<>>, outcome |-> "return"]

\* errors.WithStack(err) printed with %+v: the error's text and the call stack.
WithStack(err) == <<err.text, "stack">>

\* func (l loggerImpl) Trace(err error)
Trace(h, p, as, l, err, failing) ==
  IF err.kind # "nil"
    THEN Leveled(h, p, as, l, "Errorf", <<"%+v">>, <<WithStack(err)>>, failing)
    ELSE {Returned(p, as)}

\* A bug for Recover: the panic is raised before the trace is logged.
RecoverPanicsFirst(h, p, as, l, msg, i, failing) ==
  IF i.kind = "nil" THEN {Returned(p, as)}
  ELSE Leveled(h, p, as, l, "Panicf", <<"recovered", "%s", "from", "%v">>,
               <<<<msg>>, <<i.text>>>>, failing)

\* A bug for Recover: a payload of any type is traced.
RecoverTracesAll(h, p, as, l, msg, i, failing) ==
  IF i.kind = "nil" THEN {Returned(p, as)}
  ELSE UNION {
         { [pool |-> r.pool, arrays |-> r.arrays, events |-> t.events \o r.events,
            outcome |-> r.outcome]
           : r \in Leveled(h, t.pool, t.arrays, l, "Panicf",
                           <<"recovered", "%s", "from", "%v">>,
                           <<<<msg>>, <<i.text>>>>, failing) }
         : t \in Trace(h, p, as, l, [kind |-> "error", text |-> i.text], failing) }

\* func (l loggerImpl) Recover(msg string), run as a deferred call; i is what
\* recover() returns: the payload of the panic unwinding, or nil. A call that
\* does not return normally ends Recover there.
Recover(h, p, as, l, msg, i, failing) ==
  IF i.kind = "nil" THEN {Returned(p, as)}
  ELSE LET traced ==
             CASE i.kind = "error"  -> Trace(h, p, as, l, i, failing)
               [] i.kind = "string" ->
                    Trace(h, p, as, l, [kind |-> "error", text |-> i.text], failing)
               [] OTHER -> {Returned(p, as)}
       IN  UNION {
             IF t.outcome # "return" THEN {t}
             ELSE { [pool |-> r.pool, arrays |-> r.arrays, events |-> t.events \o r.events,
                     outcome |-> r.outcome]
                    : r \in Leveled(h, t.pool, t.arrays, l, "Panicf",
                                    <<"recovered", "%s", "from", "%v">>,
                                    <<<<msg>>, <<i.text>>>>, failing) }
             : t \in traced }

(* ------------------------ the callers' inputs ------------------------- *)

SinkNames == {"stdout", "logstash"}
LevelNames == {"debug", "info", "warn", "error", "fatal", "panic"}

\* Configurations New accepts, for the calls on the logger it returns.
FacadeConfigs ==
  [Service : {"svc"}, Level : LevelNames, Namespace : {"default"},
   DisableStdout : BOOLEAN, FormatStdout : {FormatJSON},
   LogstashURI : {"", "logstash:5000"}, LogstashProtocol : {"udp"}]

\* Configurations handed to New, valid and invalid.
NewConfigs ==
  [Service : {"svc"}, Level : LevelNames \cup {"", "bogus"}, Namespace : {"default"},
   DisableStdout : BOOLEAN, FormatStdout : {"", FormatJSON, FormatPretty, "xml"},
   LogstashURI : {"", "logstash:5000", "down:5000"}, LogstashProtocol : {"udp", "bogus"}]

\* What callers pass to With and Namespace.
Extras == {[k \in {"a", "level"} |-> "1"]}
Names == {"custom"}

\* Panic payloads recover() may return, and no panic at all.
Payloads ==
  {[kind |-> "nil", text |-> ""], [kind |-> "error", text |-> "boom"],
   [kind |-> "string", text |-> "oops"], [kind |-> "int", text |-> "42"]}
Errors == {[kind |-> "nil", text |-> ""], [kind |-> "error", text |-> "boom"]}

NoCall ==
  [op |-> "none", lg |-> 0, arg |-> "", failing |-> {}, events |-> <<>>, outcome |-> "return"]

(* ------------------- the facade, one call at a time ------------------- *)

\* The state after New(cfg) returned.
Built(cfg) ==
  LET n == New(EmptyHeap, cfg)
  IN  /\ config = cfg
      /\ ret = [called |-> TRUE, logger |-> n.logger, err |-> n.err]
      /\ heap = n.heap
      /\ lgs = n.logger
      /\ pool = EmptyBag
      /\ arrays = EmptyArrays
      /\ call = NoCall

Init == hist = <<>> /\ gor = <<>> /\ \E cfg \in FacadeConfigs : Built(cfg)

\* The sinks of the logger: a write can fail on these only.
Sinks == {lgs[1].base.cores[j].name : j \in 1..Len(lgs[1].base.cores)}

\* The process is running: no Fatal call has exited it.
Running == call.outcome # "exit"

Finish(r, c) ==
  /\ pool' = r.pool
  /\ arrays' = CollectArrs(r.arrays, PoolArrs(r.pool))
  /\ call' = [c EXCEPT !.events = r.events, !.outcome = r.outcome]
  /\ UNCHANGED <<config, ret, heap, lgs, hist, gor>>

\* lgs[i].<method>("hello") or lgs[i].<method>f("hello %s", "there")
CallLeveled ==
  \E i \in 1..Len(lgs), method \in Methods, failing \in SUBSET Sinks :
    /\ Running
    /\ \E r \in Leveled(heap, pool, arrays, lgs[i], method,
                        <<"hello", "%s">>, <<<<"there">>>>, failing) :
         Finish(r, [NoCall EXCEPT !.op = "Leveled", !.lg = i, !.arg = method,
                                  !.failing = failing])

\* lgs[i].Trace(err)
CallTrace ==
  \E i \in 1..Len(lgs), err \in Errors, failing \in SUBSET Sinks :
    /\ Running
    /\ \E r \in Trace(heap, pool, arrays, lgs[i], err, failing) :
         Finish(r, [NoCall EXCEPT !.op = "Trace", !.lg = i, !.arg = err.kind,
                                  !.failing = failing])

\* func() { defer lgs[i].Recover("job"); panic(payload) }(), or no panic
CallRecover ==
  \E i \in 1..Len(lgs), payload \in Payloads, failing \in SUBSET Sinks :
    /\ Running
    /\ \E r \in Recover(heap, pool, arrays, lgs[i], "job", payload, failing) :
         Finish(r, [NoCall EXCEPT !.op = "Recover", !.lg = i, !.arg = payload.kind,
                                  !.failing = failing])

\* The caller keeps the logger New returned in lgs[1] and the one it derived
\* last in lgs[2].
Keep(r, c) ==
  /\ lgs' = <<lgs[1], r.logger>>
  /\ heap' = Collect(r.heap, {lgs[1].fields, r.logger.fields})
  /\ call' = c
  /\ UNCHANGED <<config, ret, hist, pool, arrays, gor>>

\* cur = lgs[i].With(extra)
CallWith ==
  \E i \in 1..Len(lgs), extra \in Extras :
    /\ Running
    /\ Keep(With(heap, lgs[i], extra), [NoCall EXCEPT !.op = "With", !.lg = i])

\* cur = lgs[i].Namespace(name)
CallNamespace ==
  \E i \in 1..Len(lgs), name \in Names :
    /\ Running
    /\ Keep(Namespace(heap, lgs[i], name), [NoCall EXCEPT !.op = "Namespace", !.lg = i])

\* The runtime drops an item of the sync.Pool (at a garbage collection).
PoolDrop ==
  /\ Running
  /\ \E s \in BagToSet(pool) :
       /\ pool' = pool (-) SetToBag({s})
       /\ arrays' = CollectArrs(arrays, PoolArrs(pool'))
  /\ UNCHANGED <<config, ret, heap, lgs, hist, call, gor>>

\* The leveled calls, Trace and Recover on the logger New returned.
Next == CallLeveled \/ CallTrace \/ CallRecover \/ PoolDrop

Spec == Init /\ [][Next]_vars

\* A logger with no sink: console output disabled, no network address.
SilentConfigs ==
  {c \in NewConfigs : /\ c.DisableStdout /\ c.LogstashURI = "" /\ c.LogstashProtocol = "udp"
                      /\ c.Level \in {"", "error"} /\ c.FormatStdout = ""}

InitSilent == hist = <<>> /\ gor = <<>> /\ \E cfg \in SilentConfigs : Built(cfg)

NextSilent == CallLeveled \/ CallTrace \/ CallWith \/ CallNamespace \/ PoolDrop

SpecSilent == InitSilent /\ [][NextSilent]_vars

(* ------------------------------- New ---------------------------------- *)

InitNew ==
  /\ config \in NewConfigs
  /\ ret = [called |-> FALSE, logger |-> <<>>, err |-> ""]
  /\ heap = EmptyHeap
  /\ lgs = <<>>
  /\ hist = <<>>
  /\ pool = EmptyBag
  /\ arrays = EmptyArrays
  /\ call = NoCall
  /\ gor = <<>>

\* logger, err := New(config)
CallNew ==
  /\ ~ret.called
  /\ LET n == New(heap, config)
     IN  /\ ret' = [called |-> TRUE, logger |-> n.logger, err |-> n.err]
         /\ heap' = n.heap
         /\ lgs' = n.logger
  /\ UNCHANGED <<config, hist, pool, arrays, call, gor>>

NextNew == CallNew

SpecNew == InitNew /\ [][NextNew]_vars

(* ------------------- deriving loggers from loggers -------------------- *)

\* var DefaultConfig
DefaultConfig ==
  [Service |-> "awesome-service", Level |-> "debug", Namespace |-> "awesome-namespace",
   DisableStdout |-> FALSE, FormatStdout |-> FormatJSON,
   LogstashURI |-> "", LogstashProtocol |-> "udp"]

\* What callers pass to With and Namespace here.
DeriveExtras ==
  {[k \in {"a"} |-> "1"], [k \in {"b"} |-> "2"], [k \in {"a", "namespace"} |-> "3"]}
DeriveNames == {"x", "y"}

\* The state after New(DefaultConfig) returned; hist records how each logger
\* was made: its parent, the fields passed, and its context when it was made.
InitFields ==
  /\ Built(DefaultConfig)
  /\ gor = <<>>
  /\ hist = <<[parent |-> 0, extra |-> EmptyFields, born |-> heap[lgs[1].fields].m]>>

Derived(i, extra, r) ==
  /\ lgs' = Append(lgs, r.logger)
  /\ heap' = r.heap
  /\ hist' = Append(hist, [parent |-> i, extra |-> extra, born |-> r.heap[r.logger.fields].m])
  /\ UNCHANGED <<config, ret, pool, arrays, call, gor>>

\* lgs[i].With(extra), the result kept beside the others
DeriveWith ==
  \E i \in 1..Len(lgs), extra \in DeriveExtras :
    /\ Len(lgs) < MaxLoggers
    /\ Derived(i, extra, With(heap, lgs[i], extra))

\* lgs[i].Namespace(name), the result kept beside the others
DeriveNamespace ==
  \E i \in 1..Len(lgs), name \in DeriveNames :
    /\ Len(lgs) < MaxLoggers
    /\ Derived(i, [k \in {"namespace"} |-> name], Namespace(heap, lgs[i], name))

NextFields == DeriveWith \/ DeriveNamespace

SpecFields == InitFields /\ [][NextFields]_vars

(* ---------------- goroutines sharing one logger and the pool ---------- *)

\* Two goroutines: interference is between one call and another.
Goroutines == {1, 2}
Tag(g) == <<"g1", "g2">>[g]

\* What goroutine g passes to With: its own values, under a key of its request
\* and under a reserved key.
OwnExtras(g) == {[k \in {"rid", "level"} |-> Tag(g)]}
\* The methods the goroutines call.
PoolMethods == {"Info", "Panic"}
\* The maps Flatten is called on directly.
TestFields ==
  {[k \in {"1"} |-> "1"],
   [k \in {"1", "namespace", "level", "service"} |-> IF k = "1" THEN "1" ELSE "kill me"],
   [k \in ignore |-> "kill me"]}

NoList == [arr |-> 0, len |-> 0]
Idle ==
  [pc |-> "idle", method |-> "", list |-> NoList, prepared |-> <<>>, rec |-> <<>>,
   made |-> EmptyFields, gets |-> 0, puts |-> 0]

\* The state after New(DefaultConfig) returned and its logger L = lgs[1] was
\* handed to every goroutine: lgs[1 + g] is goroutine g's own logger value.
InitPool ==
  /\ hist = <<>>
  /\ \E n \in {New(EmptyHeap, DefaultConfig)} :
       /\ config = DefaultConfig
       /\ ret = [called |-> TRUE, logger |-> n.logger, err |-> n.err]
       /\ heap = n.heap
       /\ lgs = <<n.logger[1]>> \o [g \in Goroutines |-> n.logger[1]]
  /\ pool = EmptyBag
  /\ arrays = EmptyArrays
  /\ call = NoCall
  /\ gor = [g \in Goroutines |-> Idle]

\* The arrays some goroutine's slice or the pool points to.
HeldArrs(gs) == {gs[g].list.arr : g \in Goroutines}
Sweep(as, p, gs) == CollectArrs(as, PoolArrs(p) \cup HeldArrs(gs))

\* l := L.With(own fields), in goroutine g
GoWith(g) ==
  /\ gor[g].pc = "idle"
  /\ \E extra \in OwnExtras(g) :
       LET r == With(heap, lgs[1], extra)
       IN  /\ lgs' = [lgs EXCEPT ![1 + g] = r.logger]
           /\ heap' = Collect(r.heap, {lgs'[i].fields : i \in 1..Len(lgs)})
  /\ UNCHANGED <<config, ret, hist, pool, arrays, call, gor>>

\* l.Info(...) or l.Panic(...) begins: prepare calls l.fields.Flatten(). Both
\* begin alike; which of them runs shows when prepare has returned.
GoFlatten(g) ==
  /\ gor[g].pc = "idle"
  /\ \E r \in Flatten(pool, arrays, heap[lgs[1 + g].fields].m) :
       /\ pool' = r.pool
       /\ gor' = [gor EXCEPT ![g] = [Idle EXCEPT !.pc = "flattened", !.list = r.list,
                                        !.gets = 1]]
       /\ arrays' = Sweep(r.arrays, pool', gor')
  /\ UNCHANGED <<config, ret, heap, lgs, hist, call>>

\* prepare: prepared := l.base.With(flatten...)
GoBaseWith(g) ==
  /\ gor[g].pc = "flattened"
  /\ gor' = [gor EXCEPT ![g].pc = "withed",
                        ![g].prepared = <<SugarWith(lgs[1 + g].base, Elems(arrays, gor[g].list))>>]
  /\ UNCHANGED <<config, ret, heap, lgs, hist, pool, arrays, call>>

\* prepare: putFlatten(flatten); flatten is dead from here on
GoPut(g) ==
  /\ gor[g].pc = "withed"
  /\ pool' = PutFlatten(pool, gor[g].list)
  /\ gor' = [gor EXCEPT ![g].pc = "prepared", ![g].list = NoList, ![g].puts = @ + 1]
  /\ arrays' = Sweep(arrays, pool', gor')
  /\ UNCHANGED <<config, ret, heap, lgs, hist, call>>

\* prepare returned: the sugared logger writes the entry of l.Info or l.Panic
GoEmit(g) ==
  /\ gor[g].pc = "prepared"
  /\ \E method \in PoolMethods :
       LET z == ZapLog(gor[g].prepared[1], MethodLevel(method), <<"hello">>, {})
       IN  gor' = [gor EXCEPT ![g].pc = IF z.outcome = "panic" THEN "panicking"
                                        ELSE "returning",
                              ![g].method = method, ![g].rec = z.events]
  /\ UNCHANGED <<config, ret, heap, lgs, hist, pool, arrays, call>>

\* the call returns, or its panic reaches the goroutine's recover
GoEnd(g) ==
  /\ gor[g].pc \in {"returning", "panicking"}
  /\ gor' = [gor EXCEPT ![g] = Idle]
  /\ UNCHANGED <<config, ret, heap, lgs, hist, pool, arrays, call>>

\* got := fields.Flatten(), called directly as the package's test does
GoFlattenDirect(g) ==
  /\ gor[g].pc = "idle"
  /\ \E f \in TestFields :
     \E r \in Flatten(pool, arrays, f) :
       /\ pool' = r.pool
       /\ gor' = [gor EXCEPT ![g] = [Idle EXCEPT !.pc = "direct", !.list = r.list, !.made = f]]
       /\ arrays' = Sweep(r.arrays, pool', gor')
  /\ UNCHANGED <<config, ret, heap, lgs, hist, call>>

\* the caller of Flatten gives the slice back with putFlatten
GoPutDirect(g) ==
  /\ gor[g].pc = "direct"
  /\ pool' = PutFlatten(pool, gor[g].list)
  /\ gor' = [gor EXCEPT ![g] = Idle]
  /\ arrays' = Sweep(arrays, pool', gor')
  /\ UNCHANGED <<config, ret, heap, lgs, hist, call>>

\* the caller of Flatten lets the slice go, as the package's test does
GoForget(g) ==
  /\ gor[g].pc = "direct"
  /\ gor' = [gor EXCEPT ![g] = Idle]
  /\ arrays' = Sweep(arrays, pool, gor')
  /\ UNCHANGED <<config, ret, heap, lgs, hist, pool, call>>

\* The runtime drops an item of the sync.Pool (at a garbage collection).
GoPoolDrop ==
  /\ \E s \in BagToSet(pool) :
       /\ pool' = pool (-) SetToBag({s})
       /\ arrays' = Sweep(arrays, pool', gor)
  /\ UNCHANGED <<config, ret, heap, lgs, hist, call, gor>>

\* Goroutines that each derive their own logger from L and log with it.
NextPool ==
  \/ \E g \in Goroutines :
       GoWith(g) \/ GoFlatten(g) \/ GoBaseWith(g) \/ GoPut(g) \/ GoEmit(g) \/ GoEnd(g)
  \/ GoPoolDrop

SpecPool == InitPool /\ [][NextPool]_vars

\* Goroutines that call Flatten directly.
NextFlatten ==
  \/ \E g \in Goroutines : GoFlattenDirect(g) \/ GoPutDirect(g) \/ GoForget(g)
  \/ GoPoolDrop

SpecFlatten == InitPool /\ [][NextFlatten]_vars

(* ------------------------------ claims -------------------------------- *)

\* The sinks the configuration asks for.
Configured ==
  (IF ~config.DisableStdout THEN {"stdout"} ELSE {})
    \cup (IF config.LogstashURI # "" THEN {"logstash"} ELSE {})

\* The level name of a leveled method.
NameOf(method) ==
  CASE method \in {"Debug", "Debugf"} -> "debug"
    [] method \in {"Info", "Infof"}   -> "info"
    [] method \in {"Warn", "Warnf"}   -> "warn"
    [] method \in {"Error", "Errorf"} -> "error"
    [] method \in {"Panic", "Panicf"} -> "panic"
    [] method \in {"Fatal", "Fatalf"} -> "fatal"

Rank(order, name) == CHOOSE i \in 1..Len(order) : order[i] = name
\* The order the specification states, and the order the sinks filter by.
StatedOrder == <<"debug", "info", "warn", "error", "fatal", "panic">>
SinkOrder == <<"debug", "info", "warn", "error", "panic", "fatal">>
Admits(order, threshold, name) == Rank(order, name) >= Rank(order, threshold)

\* Positions of the records the last call wrote to sink s at the named level.
Records(s, name) ==
  {i \in 1..Len(call.events) :
     call.events[i].sink = s /\ \E m \in Methods :
        NameOf(m) = name /\ call.events[i].level = MethodLevel(m)}
Has(i, token) == \E j \in 1..Len(call.events[i].msg) : call.events[i].msg[j] = token

\* C2 as stated: each sink writes the record of a leveled call iff the call's
\* level is at or above the threshold in debug < info < warn < error < fatal < panic.
C2_Stated ==
  call.op = "Leveled" =>
    \A s \in Configured \ call.failing :
      Records(s, NameOf(call.arg)) # {} <=> Admits(StatedOrder, config.Level, NameOf(call.arg))

\* C2, amended: each sink writes the record of a leveled call iff the call's
\* level is at or above the threshold in debug < info < warn < error < panic < fatal;
\* so a "fatal" logger writes no Panic record and a "panic" logger writes Fatal ones.
C2_Threshold ==
  call.op = "Leveled" =>
    \A s \in Configured \ call.failing :
      Records(s, NameOf(call.arg)) # {} <=> Admits(SinkOrder, config.Level, NameOf(call.arg))

C2_Witness ==
  /\ call.op = "Leveled" /\ call.arg = "Fatal" /\ config.Level = "panic"
  /\ Configured = SinkNames /\ call.failing = {}
  /\ \A s \in SinkNames : Records(s, "fatal") # {}

\* The trace record and the panic record of a Recover call on sink s.
TraceRecords(s) == {i \in Records(s, "error") : Has(i, "stack")}
PanicRecords(s) == {i \in Records(s, "panic") : Has(i, "recovered") /\ Has(i, "job")}
PayloadText(kind) == (CHOOSE p \in Payloads : p.kind = kind).text

\* C4 as stated: a deferred Recover that meets a panic with an error or string
\* payload first emits the Error-level trace (where the threshold admits it), then
\* emits the Panic-level record with msg and the payload on every sink, then
\* panics; with no panic it emits nothing and returns.
C4_Stated ==
  call.op = "Recover" =>
    /\ call.arg = "nil" => call.events = <<>> /\ call.outcome = "return"
    /\ call.arg \in {"error", "string"} =>
         /\ call.outcome = "panic"
         /\ \A s \in Configured \ call.failing :
              /\ Admits(SinkOrder, config.Level, "error") => TraceRecords(s) # {}
              /\ \E j \in PanicRecords(s) :
                   /\ Has(j, PayloadText(call.arg))
                   /\ \A i \in TraceRecords(s) : i < j /\ Has(i, PayloadText(call.arg))

\* C4, amended: the Panic-level record is emitted on the sinks whose threshold
\* admits Panic (every threshold but "fatal"); the order trace record, panic
\* record, panic is as stated, and the panic is raised whatever was written.
C4_RecoverOrder ==
  call.op = "Recover" =>
    /\ call.arg = "nil" => call.events = <<>> /\ call.outcome = "return"
    /\ call.arg \in {"error", "string"} =>
         /\ call.outcome = "panic"
         /\ \A s \in Configured \ call.failing :
              /\ Admits(SinkOrder, config.Level, "error") <=> TraceRecords(s) # {}
              /\ Admits(SinkOrder, config.Level, "panic") <=> PanicRecords(s) # {}
              /\ \A j \in PanicRecords(s) :
                   /\ Has(j, PayloadText(call.arg))
                   /\ \A i \in TraceRecords(s) : i < j /\ Has(i, PayloadText(call.arg))

C4_Witness ==
  /\ call.op = "Recover" /\ call.arg = "string" /\ config.Level = "warn"
  /\ Configured = SinkNames /\ call.failing = {}
  /\ call.outcome = "panic"
  /\ \A s \in SinkNames : TraceRecords(s) # {} /\ PanicRecords(s) # {}

\* C5: with a console sink and a network sink configured, a leveled call during
\* which the write to one of them fails still writes the record to the other,
\* and ends as a call of its level ends (no error or fault from the write).
C5_OtherSinkWritten ==
  (call.op = "Leveled" /\ Configured = SinkNames /\ Cardinality(call.failing) = 1) =>
    /\ \A s \in SinkNames \ call.failing :
         Admits(SinkOrder, config.Level, NameOf(call.arg)) => Records(s, NameOf(call.arg)) # {}
    /\ call.outcome \in {"return", "panic", "exit"}
    /\ NameOf(call.arg) \notin {"panic", "fatal"} => call.outcome = "return"

C5_Witness ==
  /\ call.op = "Leveled" /\ Configured = SinkNames /\ call.failing = {"stdout"}
  /\ call.arg = "Info" /\ config.Level = "debug"
  /\ Records("logstash", "info") # {} /\ Records("stdout", "info") = {}
  /\ call.outcome = "return"

\* C8 as stated: when Recover meets a panic whose payload is neither an error
\* nor a string, no record that call emits holds a representation of the payload.
C8_Stated ==
  (call.op = "Recover" /\ call.arg = "int") =>
    \A i \in 1..Len(call.events) : ~Has(i, PayloadText("int"))

\* C8, amended: for such a payload the trace step is skipped, so the call emits
\* no Error-level record; the Panic-level record, on the sinks whose threshold
\* admits it, still holds the payload as %v prints it, and the panic is raised.
C8_NoTraceOnly ==
  (call.op = "Recover" /\ call.arg = "int") =>
    /\ call.outcome = "panic"
    /\ \A s \in SinkNames : Records(s, "error") = {}
    /\ \A s \in Configured \ call.failing :
         /\ Admits(SinkOrder, config.Level, "panic") <=> PanicRecords(s) # {}
         /\ \A j \in PanicRecords(s) : Has(j, PayloadText("int"))

C8_Witness ==
  /\ call.op = "Recover" /\ call.arg = "int" /\ config.Level = "debug"
  /\ Configured = SinkNames /\ call.failing = {}
  /\ \A s \in SinkNames : \E j \in PanicRecords(s) : Has(j, "42")

\* C6: a logger built with console output disabled and an empty network address
\* is built without error, and every Debug/Info/Warn/Error call (plain and
\* formatted), Trace, With and Namespace on it writes nothing anywhere (so does no
\* I/O) and returns normally.
C6_SilentLogger ==
  /\ ret.err = "" /\ ret.logger # <<>>
  /\ (\/ call.op \in {"Trace", "With", "Namespace"}
      \/ call.op = "Leveled" /\ NameOf(call.arg) \in {"debug", "info", "warn", "error"})
       => call.events = <<>> /\ call.outcome = "return"

C6_Witness ==
  /\ Configured = {} /\ Len(lgs) = 2
  /\ call.op = "Leveled" /\ call.arg = "Errorf" /\ call.lg = 2
  /\ call.events = <<>> /\ call.outcome = "return"

\* C7: New returns a nil logger and a non-nil error when the level name is
\* non-empty and unknown, or the console format name is non-empty and unknown, or
\* the network dial fails; an empty level counts as "info" and an empty format as
\* json; a non-nil logger never comes with a non-nil error.
C7_NewFailsWhole ==
  ret.called =>
    LET badLevel == config.Level # "" /\ config.Level \notin LevelNames
        badFormat == config.FormatStdout # ""
                       /\ config.FormatStdout \notin {FormatJSON, FormatPretty}
        dialFails == config.LogstashURI # ""
                       /\ ~(config.LogstashURI \in Listening
                            /\ config.LogstashProtocol \in Networks)
    IN  /\ (badLevel \/ badFormat \/ dialFails) => ret.logger = <<>> /\ ret.err # ""
        /\ ~(badLevel \/ badFormat \/ dialFails) => ret.logger # <<>> /\ ret.err = ""
        /\ ~(ret.logger # <<>> /\ ret.err # "")
        /\ ret.logger # <<>> =>
             \A j \in 1..Len(ret.logger[1].base.cores) :
               LET c == ret.logger[1].base.cores[j]
               IN  /\ config.Level = "" => c.zapLevel = InfoLevel
                   /\ (config.FormatStdout = "" /\ c.name = "stdout") => c.encoder = "json"

C7_Witness ==
  /\ ret.called /\ config.Level = "bogus" /\ config.FormatStdout = FormatPretty
  /\ config.LogstashURI = "logstash:5000" /\ config.LogstashProtocol = "udp"
  /\ ret.logger = <<>> /\ ret.err = "bad logging level"

\* C1: With and Namespace calls on a logger, or on loggers derived from it, leave
\* its context as it was: GetField answers for every key as when the logger was
\* made; and of two loggers derived from one parent neither has a key that only
\* the other's call added.
AllKeys == {"namespace", "a", "b", "c"} \cup ignore
C1_ContextIsolated ==
  /\ \A i \in 1..Len(lgs) : \A k \in AllKeys :
       GetField(heap, lgs[i], k) =
         IF k \in DOMAIN hist[i].born THEN [value |-> hist[i].born[k], ok |-> TRUE]
         ELSE [value |-> "nil", ok |-> FALSE]
  /\ \A i, j \in 1..Len(lgs) :
       (i # j /\ hist[i].parent = hist[j].parent /\ hist[i].parent > 0) =>
         \A b \in DOMAIN hist[j].extra
                    \ (DOMAIN hist[i].extra \cup DOMAIN hist[hist[i].parent].born) :
           ~GetField(heap, lgs[i], b).ok

C1_Witness ==
  /\ Len(lgs) = 4
  /\ hist[2].parent = 1 /\ hist[3].parent = 1 /\ hist[4].parent = 2
  /\ DOMAIN hist[2].extra = {"a"} /\ DOMAIN hist[3].extra = {"b"}
  /\ hist[4].extra = [k \in {"namespace"} |-> "x"]
  /\ GetField(heap, lgs[2], "a").ok /\ ~GetField(heap, lgs[2], "b").ok
  /\ GetField(heap, lgs[3], "b").ok /\ ~GetField(heap, lgs[3], "a").ok
  /\ ~GetField(heap, lgs[1], "a").ok /\ ~GetField(heap, lgs[1], "b").ok
  /\ GetField(heap, lgs[2], "namespace").value = "awesome-namespace"
  /\ GetField(heap, lgs[4], "namespace").value = "x"

\* The key/value pairs an alternating sequence holds.
PairsOf(e) == [i \in 1..(Len(e) \div 2) |-> <<e[2 * i - 1], e[2 * i]>>]
\* seq holds the pair (k, m[k]) once for every key k of m that is not reserved,
\* and nothing else.
HoldsExactly(seq, m) ==
  /\ Len(seq) = Cardinality(DOMAIN m \ ignore)
  /\ \A k \in DOMAIN m \ ignore :
       Cardinality({i \in 1..Len(seq) : seq[i] = <<k, m[k]>>}) = 1
  /\ \A i \in 1..Len(seq) : seq[i][1] \notin ignore

\* C3: Flatten returns an alternating key/value sequence holding (k, F[k]) exactly
\* once for every key k of F outside {@timestamp, message, level, service} and no
\* pair for a reserved key, in whatever order the map is ranged over; for an F of
\* reserved keys only it is empty.
C3_FlattenDropsReserved ==
  \A g \in Goroutines :
    gor[g].pc = "direct" =>
      LET e == Elems(arrays, gor[g].list)
      IN  /\ Len(e) = 2 * Len(PairsOf(e))
          /\ HoldsExactly(PairsOf(e), gor[g].made)
          /\ DOMAIN gor[g].made \subseteq ignore => e = <<>>

C3_Witness ==
  \E g, h \in Goroutines :
    /\ gor[g].pc = "direct" /\ DOMAIN gor[g].made = {"1", "namespace", "level", "service"}
    /\ Elems(arrays, gor[g].list) = <<"namespace", "kill me", "1", "1">>
    /\ gor[h].pc = "direct" /\ DOMAIN gor[h].made = ignore
    /\ Elems(arrays, gor[h].list) = <<>>

\* C9: in every interleaving of concurrent leveled calls, each call takes one
\* buffer from the pool and gives it back once, reset to length zero, after the
\* base logger has read it and before the record is written; no buffer is held by
\* two calls at once, is in the pool while held, or is in the pool twice; and a
\* call that ends, by returning or by a Panic-level panic, has given its buffer back.
C9_BufferCheckedOutOnce ==
  /\ \A g \in Goroutines :
       /\ gor[g].pc \in {"flattened", "withed"} =>
            /\ gor[g].gets = 1 /\ gor[g].puts = 0 /\ gor[g].rec = <<>>
            /\ gor[g].list.arr \notin PoolArrs(pool)
            /\ \A h \in Goroutines \ {g} :
                 gor[h].pc \in {"flattened", "withed"} => gor[h].list.arr # gor[g].list.arr
       /\ gor[g].pc = "prepared" =>
            gor[g].gets = 1 /\ gor[g].puts = 1 /\ gor[g].prepared # <<>> /\ gor[g].rec = <<>>
       /\ gor[g].pc \in {"returning", "panicking"} =>
            gor[g].gets = 1 /\ gor[g].puts = 1 /\ gor[g].rec # <<>>
       /\ gor[g].pc = "panicking" <=> (gor[g].rec # <<>> /\ gor[g].method = "Panic")
  /\ \A s \in BagToSet(pool) : s.len = 0 /\ CopiesIn(s, pool) = 1

C9_Witness ==
  \E g, h \in Goroutines :
    /\ gor[g].pc = "panicking" /\ gor[g].puts = 1
    /\ gor[h].pc = "withed" /\ gor[h].list.arr # 0
    /\ BagCardinality(pool) = 1

\* The fields of a written record beyond those the sink itself adds.
Extra(e) == SelectSeq(e.fields, LAMBDA pr : pr[1] # "service")
Foreign(g) == {Tag(h) : h \in Goroutines \ {g}}

\* C10: when goroutines each derive their own logger from a shared one with With
\* and log with it, the extra fields of every record (and of the prepared logger
\* that writes it) are exactly the non-reserved entries of the context of the
\* logger the call was made on: no key or value of another goroutine's With and
\* no entry left in a reused buffer is among them.
C10_RecordFieldsOwn ==
  \A g \in Goroutines :
    LET m == heap[lgs[1 + g].fields].m
    IN  /\ gor[g].pc \in {"withed", "prepared", "returning", "panicking"} =>
             /\ HoldsExactly(gor[g].prepared[1].ctx, m)
             /\ \A i \in 1..Len(gor[g].prepared[1].ctx) :
                  gor[g].prepared[1].ctx[i][2] \notin Foreign(g)
        /\ \A j \in 1..Len(gor[g].rec) :
             /\ HoldsExactly(Extra(gor[g].rec[j]), m)
             /\ \A i \in 1..Len(Extra(gor[g].rec[j])) :
                  Extra(gor[g].rec[j])[i][2] \notin Foreign(g)

C10_Witness ==
  \E g, h \in Goroutines :
    /\ g # h
    /\ gor[g].pc = "returning" /\ Len(gor[g].rec) = 1
    /\ <<"rid", Tag(g)>> \in {Extra(gor[g].rec[1])[i] : i \in 1..Len(Extra(gor[g].rec[1]))}
    /\ gor[h].pc = "withed" /\ gor[h].list.len = 2 /\ Cap(arrays, gor[h].list) = 4
    /\ arrays[gor[h].list.arr].data[4] = Tag(g)
    /\ gor[h].prepared[1].ctx = <<<<"namespace", "awesome-namespace">>>>

====
